---- MODULE Spec2Model ----
(***************************************************************************)
(* Model of the secrets store (SecretsManager, lib/secrets) and of the     *)
(* API-key gate (validateApiKey / withApiKeyAuth, lib/apiKeyAuth).         *)
(*                                                                         *)
(* Strings are sequences of one-character strings, so that startsWith and  *)
(* substring are computed as the code computes them.  Every `await` of the *)
(* code is a scheduling point: the synchronous code between two awaits is  *)
(* one action.                                                             *)
(***************************************************************************)
EXTENDS Integers, Sequences, FiniteSets, TLC

\* Number of calls (HTTP requests or direct initialize() calls) of a run.
NumCalls == 2

Calls == 1..NumCalls

-----------------------------------------------------------------------------
(* Values *)

\* interface AppSecrets
Fields == {"databaseUrl", "apiKey", "jwtSecret", "redisUrl", "stripeSecretKey"}

\* JavaScript null / undefined, for a string-typed slot.
NullStr == <<"null">>

\* The empty string ''.
Empty == << >>

K1 == <<"K", "1">>

K2 == <<"K", "2">>

\* Some non-empty value of a field other than the api key.
V == <<"v">>

\* JavaScript null, for the AppSecrets-typed slot.
JsNull == [null |-> TRUE]

\* !value
Falsy(s) == s = NullStr \/ s = Empty

\* String.prototype.startsWith
StartsWith(s, prefix) ==
    /\ Len(s) >= Len(prefix)
    /\ SubSeq(s, 1, Len(prefix)) = prefix

\* String.prototype.substring(n)
Substring(s, n) == SubSeq(s, n + 1, Len(s))

\* A header value without its leading spaces.
RECURSIVE TrimLeft(_)
TrimLeft(s) == IF s # << >> /\ Head(s) = " " THEN TrimLeft(Tail(s)) ELSE s

\* A header value without its trailing spaces.
RECURSIVE TrimRight(_)
TrimRight(s) ==
    IF s # << >> /\ s[Len(s)] = " " THEN TrimRight(SubSeq(s, 1, Len(s) - 1)) ELSE s

\* 'Bearer '
BearerPrefix == <<"B", "e", "a", "r", "e", "r", " ">>

\* 'Basic '
BasicPrefix == <<"B", "a", "s", "i", "c", " ">>

-----------------------------------------------------------------------------
(* Inputs *)

\* process.env.NODE_ENV
NodeEnvs == {"production", "development", "test"}

\* Values an environment variable of a field can hold ('' stands for unset:
\* the code reads process.env.X || '').
EnvVals(f) == IF f = "apiKey" THEN {Empty, K1} ELSE {Empty, V}

\* The GitHub parameters loadFromGitHub requires.
GhParams == {"GITHUB_TOKEN", "GITHUB_REPO_OWNER", "GITHUB_REPO_NAME"}

\* A complete record with the given api key.
FullRecord(key) == [f \in Fields |-> IF f = "apiKey" THEN key ELSE V]

\* What JSON.parse of the remote content returns: null, a complete record,
\* or a record without apiKey (NullStr: the field is absent from the
\* document).
RemoteDocs == {JsNull, FullRecord(K1), FullRecord(NullStr)}

\* How the content fetch ends: the transport fails (404, network), the
\* response carries no content, the content does not parse, or it parses.
FetchOutcomes ==
    {[kind |-> k, doc |-> JsNull] : k \in {"fetchError", "noContent", "parseError"}}
    \cup {[kind |-> "parsed", doc |-> d] : d \in RemoteDocs}

\* The headers of a request, as <<Authorization, X-API-Key>> (NullStr: the
\* header is absent).
RequestHeaders ==
    {<<NullStr, NullStr>>,
     <<BearerPrefix \o K1, K2>>,
     <<BearerPrefix, K1>>,
     <<NullStr, K1>>,
     <<BasicPrefix \o K1, K2>>}

-----------------------------------------------------------------------------
(* State *)

VARIABLES
    nodeEnv,        \* process.env.NODE_ENV
    env,            \* process.env, the five field variables
    gh,             \* the GitHub parameters that are set in process.env
    secrets,        \* SecretsManager.secrets
    isInitialized,  \* SecretsManager.isInitialized
    calls,          \* the calls, each with its position and local variables
    loads,          \* history: loader invocations (loadFromGitHub, loadFromEnv)
    fetches,        \* history: octokit.repos.getContent calls
    readySets       \* history: executions of `this.isInitialized = true`

vars == <<nodeEnv, env, gh, secrets, isInitialized, calls, loads, fetches, readySets>>

NoErr == [kind |-> "none", names |-> {}]

NoResp == [status |-> 0, kind |-> "none"]

NoCtx == [apiKey |-> NullStr, secrets |-> JsNull]

\* No response body yet.
NoBody == [none |-> TRUE]

\* A call that has not arrived yet.
IdleCall ==
    [kind |-> "none", pc |-> "idle", auth |-> NullStr, xkey |-> NullStr,
     provided |-> NullStr, err |-> NoErr, seen |-> JsNull, ctx |-> NoCtx,
     resp |-> NoResp, isValid |-> FALSE, thrown |-> NoErr,
     calledInit |-> FALSE, fetched |-> 0, handlerCalls |-> 0,
     action |-> "none", body |-> NoBody, logged |-> NoErr]

\* The environments of the process: a local one sets field variables and
\* no GitHub parameter, a production one (docker-compose.yml) sets GitHub
\* parameters and no field variable.
LocalEnvs == {e \in [Fields -> {Empty, K1, K2, V}] : \A f \in Fields : e[f] \in EnvVals(f)}

Init ==
    /\ nodeEnv \in NodeEnvs
    /\ IF nodeEnv = "production"
       THEN env = [f \in Fields |-> Empty] /\ gh \in SUBSET GhParams
       ELSE env \in LocalEnvs /\ gh = {}
    /\ secrets = JsNull
    /\ isInitialized = FALSE
    /\ calls = [c \in Calls |-> IdleCall]
    /\ loads = 0
    /\ fetches = 0
    /\ readySets = 0

-----------------------------------------------------------------------------
(* The Configuration Store: class SecretsManager *)

\* The early return left out.
InitGuardOmitted == FALSE

\* initialize(): if (this.isInitialized) return;
InitGuard == isInitialized

\* A failed load remembered: the flag set although the loader threw.
FlagSetAfterFailedLoad == TRUE

\* A failed load clearing the flag.
FlagClearedAfterFailedLoad == FALSE

\* initialize(): a loader that throws leaves initialize() before the
\* assignment this.isInitialized = true, so the flag keeps its value.
FlagAfterFailedLoad == isInitialized

\* isReady()
IsReady == isInitialized /\ secrets # JsNull

\* getSecrets(): throws 'Secrets not initialized' or returns this.secrets
MgrGetSecrets ==
    IF secrets = JsNull
    THEN [ok |-> FALSE, value |-> JsNull]
    ELSE [ok |-> TRUE, value |-> secrets]

\* getSecret(key): throws 'Secrets not initialized' or returns this.secrets[key]
MgrGetSecret(key) ==
    IF secrets = JsNull
    THEN [ok |-> FALSE, value |-> NullStr]
    ELSE [ok |-> TRUE, value |-> secrets[key]]

\* loadFromEnv: the object literal built from process.env.X || ''
EnvRecord == [f \in Fields |-> env[f]]

\* Only one of the missing keys reported.
MissingSecretsFirstOnly(rec) ==
    LET all == {f \in Fields : Falsy(rec[f])}
    IN  IF all = {} THEN {} ELSE {CHOOSE f \in all : TRUE}

\* loadFromEnv: the keys whose value is falsy
MissingSecrets(rec) == {f \in Fields : Falsy(rec[f])}

\* loadFromGitHub: !githubToken || !repoOwner || !repoName
GhMissing == ~(GhParams \subseteq gh)

\* loadFromEnv: Error(`Missing required secrets: ${names}`)
MissingSecretsError(names) == [kind |-> "MissingSecrets", names |-> names]

\* loadFromGitHub: Error('Failed to initialize secrets from GitHub')
GitHubError == [kind |-> "GitHubInit", names |-> {}]

\* loadFromGitHub: Error('GitHub configuration missing. Please set GITHUB_TOKEN,
\* GITHUB_REPO_OWNER, and GITHUB_REPO_NAME'), a fixed text naming all three.
GitHubConfigMissingError == [kind |-> "GitHubConfigMissing", names |-> GhParams]

\* What is thrown inside the try block of loadFromGitHub when the fetch ends
\* with the failure k: the HTTP error of octokit, Error('Failed to fetch
\* secrets from GitHub'), or the SyntaxError of JSON.parse.
RawFetchError(k) == [kind |-> k, names |-> {}]

\* The caught error thrown again as it is.
LoadFromGitHubRethrow(raw) == raw

\* loadFromGitHub: catch (error) { console.error(...); throw new Error(...) }
LoadFromGitHubCatch(raw) == GitHubError

\* getSecrets / getSecret: Error('Secrets not initialized. Call initialize() first.')
NotInitializedError == [kind |-> "NotInitialized", names |-> {}]

\* The remote loader chosen for every mode other than development.
RemoteModeUnlessDevelopment == nodeEnv # "development"

\* initialize(): if (process.env.NODE_ENV === 'production')
RemoteMode == nodeEnv = "production"

\* The position at which a call continues once its initialize() promise has
\* settled: the direct caller, the middleware or the /api/init route, or the
\* getSecrets helper of a request.
RetPc(kind) ==
    IF kind = "init" THEN "done"
    ELSE IF kind \in {"middleware", "initroute"} THEN "startup"
    ELSE "helper"

\* initialize(), from its call up to its first await (or its return).
\* base is the record of the calling call, already carrying its own updates.
InitializeSync(p, base) ==
    LET b == [base EXCEPT !.calledInit = TRUE] IN
    IF InitGuard
    THEN /\ calls' = [calls EXCEPT ![p] = [b EXCEPT !.pc = RetPc(b.kind)]]
         /\ UNCHANGED <<secrets, isInitialized, loads, fetches, readySets>>
    ELSE IF RemoteMode
    THEN \* loadFromGitHub, up to await octokit.repos.getContent
         /\ loads' = loads + 1
         /\ IF GhMissing
            THEN /\ calls' = [calls EXCEPT ![p] =
                        [b EXCEPT !.pc = "init",
                                  !.err = LoadFromGitHubCatch(GitHubConfigMissingError)]]
                 /\ UNCHANGED fetches
            ELSE /\ calls' = [calls EXCEPT ![p] =
                        [b EXCEPT !.pc = "fetch", !.fetched = @ + 1]]
                 /\ fetches' = fetches + 1
         /\ UNCHANGED <<secrets, isInitialized, readySets>>
    ELSE \* loadFromEnv, synchronous
         /\ loads' = loads + 1
         /\ secrets' = EnvRecord
         /\ IF MissingSecrets(EnvRecord) # {}
            THEN /\ isInitialized' = FlagAfterFailedLoad
                 /\ UNCHANGED readySets
                 /\ calls' = [calls EXCEPT ![p] =
                        [b EXCEPT !.pc = RetPc(b.kind),
                                  !.err = MissingSecretsError(MissingSecrets(EnvRecord))]]
            ELSE /\ isInitialized' = TRUE
                 /\ readySets' = readySets + 1
                 /\ calls' = [calls EXCEPT ![p] = [b EXCEPT !.pc = RetPc(b.kind)]]
         /\ UNCHANGED fetches

\* Calls are numbered in their order of arrival.
MayArrive(p) ==
    /\ calls[p].pc = "idle"
    /\ \A q \in Calls : q < p => calls[q].pc # "idle"

\* A direct call of secretsManager.initialize().
InitCall(p) ==
    /\ MayArrive(p)
    /\ InitializeSync(p, [calls[p] EXCEPT !.kind = "init"])
    /\ UNCHANGED <<nodeEnv, env, gh>>

\* loadFromGitHub resumes after await octokit.repos.getContent.
FetchReturn(p, o) ==
    /\ calls[p].pc = "fetch"
    /\ IF o.kind = "parsed"
       THEN /\ secrets' = o.doc
            /\ calls' = [calls EXCEPT ![p].pc = "init"]
       ELSE /\ UNCHANGED secrets
            /\ calls' = [calls EXCEPT ![p].pc = "init",
                                      ![p].err = LoadFromGitHubCatch(RawFetchError(o.kind))]
    /\ UNCHANGED <<nodeEnv, env, gh, isInitialized, loads, fetches, readySets>>

\* initialize() resumes after await this.loadFromGitHub().
InitResume(p) ==
    /\ calls[p].pc = "init"
    /\ IF calls[p].err = NoErr
       THEN /\ isInitialized' = TRUE
            /\ readySets' = readySets + 1
       ELSE /\ isInitialized' = FlagAfterFailedLoad
            /\ UNCHANGED readySets
    /\ calls' = [calls EXCEPT ![p].pc = RetPc(calls[p].kind)]
    /\ UNCHANGED <<nodeEnv, env, gh, secrets, loads, fetches>>

-----------------------------------------------------------------------------
(* The Request Gate: validateApiKey and withApiKeyAuth *)

\* request.headers.get(name) for the header value sent on the wire: null
\* when the header is absent, else the value as the Headers object holds
\* it, which is the value without leading and trailing whitespace.
HeadersGet(wire) == IF wire = NullStr THEN NullStr ELSE TrimRight(TrimLeft(wire))

\* The api key header looked at first.
ProvidedApiKeyHeaderFirst(authHeader, apiKeyHeader) ==
    IF apiKeyHeader # NullStr
    THEN apiKeyHeader
    ELSE IF authHeader # NullStr /\ StartsWith(authHeader, BearerPrefix)
    THEN Substring(authHeader, 7)
    ELSE NullStr

\* authHeader?.startsWith('Bearer ') ? authHeader.substring(7) : apiKeyHeader
ProvidedApiKey(authHeader, apiKeyHeader) ==
    IF authHeader # NullStr /\ StartsWith(authHeader, BearerPrefix)
    THEN Substring(authHeader, 7)
    ELSE apiKeyHeader

\* Only the empty string taken for a missing credential, null let through.
MissingCredentialEmptyOnly(provided) == provided = Empty

\* if (!providedApiKey)
MissingCredential(provided) == Falsy(provided)

\* The check of the configured key left out.
KeyNotConfiguredOmitted(rec) == FALSE

\* if (!secrets.apiKey)
KeyNotConfigured(rec) == Falsy(rec["apiKey"])

\* The two keys compared by length only.
KeyMatchesByLength(provided, configured) == Len(provided) = Len(configured)

\* the negation of: providedApiKey !== secrets.apiKey
KeyMatches(provided, configured) == provided = configured

\* The secrets left off the request.
AttachContextWithoutSecrets(provided, rec) == [apiKey |-> provided, secrets |-> JsNull]

\* authenticatedRequest.apiKey = providedApiKey; authenticatedRequest.secrets = secrets
AttachContext(provided, rec) == [apiKey |-> provided, secrets |-> rec]

Response(status, kind) == [status |-> status, kind |-> kind]

\* The caught error answered as a wrong key.
ValidationCatchAsInvalidKey(error) ==
    [resp |-> Response(401, "InvalidCredential"), thrown |-> NoErr]

\* The error leaving validateApiKey.
ValidationCatchRethrow(error) == [resp |-> NoResp, thrown |-> error]

\* validateApiKey: catch (error) { ... 'Internal server error during
\* authentication', status 500 }: the response, and what is thrown.
ValidationCatch(error) ==
    [resp |-> Response(500, "ConfigurationUnavailable"), thrown |-> NoErr]

\* A request arrives at a handler wrapped by withApiKeyAuth: validateApiKey
\* runs up to its return (no credential) or up to await getSecrets(), and
\* the getSecrets helper up to its own await or return.
GateArrive(p, authHeader, apiKeyHeader) ==
    /\ MayArrive(p)
    /\ LET provided == ProvidedApiKey(HeadersGet(authHeader), HeadersGet(apiKeyHeader))
           b == [calls[p] EXCEPT !.kind = "gate", !.auth = authHeader,
                                 !.xkey = apiKeyHeader, !.provided = provided]
       IN  IF MissingCredential(provided)
           THEN /\ calls' = [calls EXCEPT ![p] =
                        [b EXCEPT !.pc = "wrap",
                                  !.resp = Response(401, "MissingCredential")]]
                /\ UNCHANGED <<secrets, isInitialized, loads, fetches, readySets>>
           ELSE IF IsReady
           THEN \* helper: return manager.getSecrets()
                /\ calls' = [calls EXCEPT ![p] =
                        [b EXCEPT !.pc = "gate", !.seen = MgrGetSecrets.value]]
                /\ UNCHANGED <<secrets, isInitialized, loads, fetches, readySets>>
           ELSE \* helper: await manager.initialize()
                InitializeSync(p, b)
    /\ UNCHANGED <<nodeEnv, env, gh>>

\* The helper never returning to its caller.
CallerPcLost(kind) == "lost"

\* The position of the caller of the getSecrets helper: validateApiKey, or
\* a route handler of /api/secrets.
CallerPc(kind) == IF kind = "gate" THEN "gate" ELSE "route"

\* The getSecrets helper resumes after await manager.initialize().
HelperResume(p) ==
    /\ calls[p].pc = "helper"
    /\ calls' = [calls EXCEPT ![p] =
            IF calls[p].err # NoErr
            THEN [@ EXCEPT !.pc = CallerPc(calls[p].kind)]
            ELSE IF MgrGetSecrets.ok
            THEN [@ EXCEPT !.pc = CallerPc(calls[p].kind), !.seen = MgrGetSecrets.value]
            ELSE [@ EXCEPT !.pc = CallerPc(calls[p].kind), !.err = NotInitializedError]]
    /\ UNCHANGED <<nodeEnv, env, gh, secrets, isInitialized, loads, fetches, readySets>>

\* validateApiKey resumes after await getSecrets().
GateResume(p) ==
    /\ calls[p].pc = "gate"
    /\ LET c == calls[p] IN
       calls' = [calls EXCEPT ![p] =
            IF c.err # NoErr
            THEN [@ EXCEPT !.pc = "wrap",
                           !.resp = ValidationCatch(c.err).resp,
                           !.thrown = ValidationCatch(c.err).thrown]
            ELSE IF KeyNotConfigured(c.seen)
            THEN [@ EXCEPT !.pc = "wrap",
                           !.resp = Response(500, "ServerMisconfigured")]
            ELSE IF ~KeyMatches(c.provided, c.seen["apiKey"])
            THEN [@ EXCEPT !.pc = "wrap",
                           !.resp = Response(401, "InvalidCredential")]
            ELSE [@ EXCEPT !.pc = "wrap", !.isValid = TRUE,
                           !.ctx = AttachContext(c.provided, c.seen)]]
    /\ UNCHANGED <<nodeEnv, env, gh, secrets, isInitialized, loads, fetches, readySets>>

\* The rejection not returned: the handler is called whatever the result.
WrapperRejectsNever(isValid) == FALSE

\* withApiKeyAuth: if (!authResult.isValid) return authResult.response
WrapperRejects(isValid) == ~isValid

\* The wrapper of withApiKeyAuth resumes after await validateApiKey(request):
\* it returns the rejection, or calls the handler and returns its response.
WrapperResume(p) ==
    /\ calls[p].pc = "wrap"
    /\ calls' = [calls EXCEPT ![p] =
            IF WrapperRejects(calls[p].isValid)
            THEN [@ EXCEPT !.pc = "done"]
            ELSE [@ EXCEPT !.pc = "done", !.handlerCalls = @ + 1,
                           !.resp = Response(200, "Handler")]]
    /\ UNCHANGED <<nodeEnv, env, gh, secrets, isInitialized, loads, fetches, readySets>>

-----------------------------------------------------------------------------

Next ==
    \/ \E p \in Calls : InitCall(p)
    \/ \E p \in Calls, h \in RequestHeaders : GateArrive(p, h[1], h[2])
    \/ \E p \in Calls, o \in FetchOutcomes : FetchReturn(p, o)
    \/ \E p \in Calls : InitResume(p)
    \/ \E p \in Calls : HelperResume(p)
    \/ \E p \in Calls : GateResume(p)
    \/ \E p \in Calls : WrapperResume(p)

Spec == Init /\ [][Next]_vars

\* The number of content fetches that have started and not returned.
InFlight == Cardinality({p \in Calls : calls[p].pc = "fetch"})

TypeOK ==
    /\ isInitialized \in BOOLEAN
    /\ loads \in 0..NumCalls
    /\ fetches \in 0..NumCalls
    /\ readySets \in 0..NumCalls
    /\ \A p \in Calls : calls[p].pc \in
            {"idle", "fetch", "init", "helper", "gate", "wrap", "json", "route",
             "startup", "done"}

-----------------------------------------------------------------------------
(* The routes of /api/secrets: GET (status) and POST (business logic) *)

\* s.includes(part)
Contains(s, part) ==
    \E i \in 0..(Len(s) - Len(part)) : SubSeq(s, i + 1, i + Len(part)) = part

\* s.substring(0, n)
Prefix(s, n) == SubSeq(s, 1, IF Len(s) < n THEN Len(s) ELSE n)

\* '<check mark> Configured'; the first element stands for the check mark
ConfiguredText == <<"U+2705", " ", "C", "o", "n", "f", "i", "g", "u", "r", "e", "d">>

\* '<cross mark> Missing'; the first element stands for the cross mark
MissingText == <<"U+274C", " ", "M", "i", "s", "s", "i", "n", "g">>

\* 'jwt_token_using_'
TokenHead == <<"j", "w", "t", "_", "t", "o", "k", "e", "n", "_", "u", "s", "i", "n", "g", "_">>

\* '...'
TokenTail == <<".", ".", ".">>

\* 'postgresql'
PostgresText == <<"p", "o", "s", "t", "g", "r", "e", "s", "q", "l">>

\* The actions a POST body can ask for; "malformed" is a body request.json()
\* cannot parse.
PostActions == {"authenticate", "database", "other", "malformed"}

\* The status body showing the api key itself.
StatusBodyWithKey(rec, environment) ==
    [status |-> "success",
     message |-> "Secrets are properly configured",
     secretsConfigured |->
        [f \in Fields |-> IF f = "apiKey" THEN rec[f]
                          ELSE IF Falsy(rec[f]) THEN MissingText ELSE ConfiguredText],
     environment |-> environment,
     timestamp |-> "now"]

\* GET: secretsInfo
StatusBody(rec, environment) ==
    [status |-> "success",
     message |-> "Secrets are properly configured",
     secretsConfigured |->
        [f \in Fields |-> IF Falsy(rec[f]) THEN MissingText ELSE ConfiguredText],
     environment |-> environment,
     timestamp |-> "now"]

\* 'Internal server error'
InternalServerError == [kind |-> "InternalServerError", names |-> {}]

\* GET and POST, catch: the body of the 500 response
ErrorBody(message, error, environment) ==
    [status |-> "error",
     message |-> message,
     error |-> IF environment = "development" THEN error ELSE InternalServerError]

\* POST, action 'authenticate': the token built from the JWT secret
AuthToken(rec) == TokenHead \o Prefix(rec["jwtSecret"], 8) \o TokenTail

\* POST, action 'authenticate'
AuthenticateBody(rec) ==
    [status |-> "success", message |-> "Authentication successful",
     token |-> AuthToken(rec)]

\* POST, action 'database'
DatabaseBody(rec) ==
    [status |-> "success", message |-> "Database connection configured",
     databaseType |-> IF Contains(rec["databaseUrl"], PostgresText)
                      THEN "PostgreSQL" ELSE "Unknown"]

\* POST: { status: 'error', message: 'Invalid action' }
InvalidActionBody == [status |-> "error", message |-> "Invalid action"]

\* The SyntaxError of request.json()
JsonSyntaxError == [kind |-> "SyntaxError", names |-> {}]

\* The TypeError of reading a property of undefined
TypeError == [kind |-> "TypeError", names |-> {}]

\* The getSecrets helper, from its call up to its await or its return.
GetSecretsSync(p, b) ==
    IF IsReady
    THEN /\ calls' = [calls EXCEPT ![p] =
                [b EXCEPT !.pc = CallerPc(b.kind), !.seen = MgrGetSecrets.value]]
         /\ UNCHANGED <<secrets, isInitialized, loads, fetches, readySets>>
    ELSE InitializeSync(p, b)

\* GET /api/secrets arrives and runs up to await getSecrets().
StatusArrive(p) ==
    /\ MayArrive(p)
    /\ GetSecretsSync(p, [calls[p] EXCEPT !.kind = "status"])
    /\ UNCHANGED <<nodeEnv, env, gh>>

\* POST /api/secrets arrives and runs up to await request.json().
BusinessArrive(p, action) ==
    /\ MayArrive(p)
    /\ calls' = [calls EXCEPT ![p] =
            [@ EXCEPT !.kind = "business", !.action = action, !.pc = "json"]]
    /\ UNCHANGED <<nodeEnv, env, gh, secrets, isInitialized, loads, fetches, readySets>>

\* POST resumes after await request.json() and runs up to await getSecrets().
BusinessJson(p) ==
    /\ calls[p].pc = "json"
    /\ IF calls[p].action = "malformed"
       THEN /\ calls' = [calls EXCEPT ![p] =
                    [@ EXCEPT !.pc = "route", !.err = JsonSyntaxError]]
            /\ UNCHANGED <<secrets, isInitialized, loads, fetches, readySets>>
       ELSE GetSecretsSync(p, calls[p])
    /\ UNCHANGED <<nodeEnv, env, gh>>

\* The response of GET, after await getSecrets().
StatusResponse(c) ==
    IF c.err # NoErr
    THEN [resp |-> Response(500, "Json"),
          body |-> ErrorBody("Failed to access secrets", c.err, nodeEnv)]
    ELSE [resp |-> Response(200, "Json"), body |-> StatusBody(c.seen, nodeEnv)]

\* The response of POST, after await getSecrets().
BusinessResponse(c) ==
    IF c.err # NoErr
    THEN [resp |-> Response(500, "Json"),
          body |-> ErrorBody("Failed to process request", c.err, nodeEnv)]
    ELSE IF c.action = "authenticate"
    THEN IF c.seen["jwtSecret"] = NullStr
         THEN [resp |-> Response(500, "Json"),
               body |-> ErrorBody("Failed to process request", TypeError, nodeEnv)]
         ELSE [resp |-> Response(200, "Json"), body |-> AuthenticateBody(c.seen)]
    ELSE IF c.action = "database"
    THEN IF c.seen["databaseUrl"] = NullStr
         THEN [resp |-> Response(500, "Json"),
               body |-> ErrorBody("Failed to process request", TypeError, nodeEnv)]
         ELSE [resp |-> Response(200, "Json"), body |-> DatabaseBody(c.seen)]
    ELSE [resp |-> Response(400, "Json"), body |-> InvalidActionBody]

\* A route handler of /api/secrets resumes after await getSecrets() (or in
\* its catch block) and returns its response.
RouteResume(p) ==
    /\ calls[p].pc = "route"
    /\ LET r == IF calls[p].kind = "status"
                THEN StatusResponse(calls[p]) ELSE BusinessResponse(calls[p])
       IN  calls' = [calls EXCEPT ![p] =
                [@ EXCEPT !.pc = "done", !.resp = r.resp, !.body = r.body]]
    /\ UNCHANGED <<nodeEnv, env, gh, secrets, isInitialized, loads, fetches, readySets>>

NextRoutes ==
    \/ \E p \in Calls : InitCall(p)
    \/ \E p \in Calls : StatusArrive(p)
    \/ \E p \in Calls, a \in PostActions : BusinessArrive(p, a)
    \/ \E p \in Calls : BusinessJson(p)
    \/ \E p \in Calls, o \in FetchOutcomes : FetchReturn(p, o)
    \/ \E p \in Calls : InitResume(p)
    \/ \E p \in Calls : HelperResume(p)
    \/ \E p \in Calls : RouteResume(p)

\* The store with the routes of /api/secrets as its callers.
SpecRoutes == Init /\ [][NextRoutes]_vars

-----------------------------------------------------------------------------
(* The middleware and the route POST /api/init *)

\* NextResponse.next()
NextStage == Response(200, "Next")

\* The failure answered by an error response.
MiddlewareCatchAsError(error) ==
    [resp |-> Response(500, "ConfigurationUnavailable"), thrown |-> NoErr, logged |-> error]

\* middleware: catch (error) { console.error(...) } return NextResponse.next()
MiddlewareCatch(error) == [resp |-> NextStage, thrown |-> NoErr, logged |-> error]

\* POST /api/init: the body of the 200 response
InitSuccessBody ==
    [status |-> "success",
     message |-> "Application initialized successfully",
     secretsReady |-> IsReady,
     timestamp |-> "now"]

\* The middleware or POST /api/init, from await secretsManager.initialize()
\* (or from the isReady() test when the store is ready) up to its return.
StartupReturn(c) ==
    IF c.kind = "middleware"
    THEN IF c.err # NoErr
         THEN [c EXCEPT !.pc = "done",
                        !.resp = MiddlewareCatch(c.err).resp,
                        !.thrown = MiddlewareCatch(c.err).thrown,
                        !.logged = MiddlewareCatch(c.err).logged]
         ELSE [c EXCEPT !.pc = "done", !.resp = NextStage]
    ELSE IF c.err # NoErr
         THEN [c EXCEPT !.pc = "done", !.resp = Response(500, "Json"), !.logged = c.err,
                        !.body = ErrorBody("Failed to initialize application", c.err, nodeEnv)]
         ELSE [c EXCEPT !.pc = "done", !.resp = Response(200, "Json"),
                        !.body = InitSuccessBody]

\* if (!secretsManager.isReady()) { await secretsManager.initialize(); }
StartupSync(p, b) ==
    IF IsReady
    THEN /\ calls' = [calls EXCEPT ![p] = StartupReturn(b)]
         /\ UNCHANGED <<secrets, isInitialized, loads, fetches, readySets>>
    ELSE InitializeSync(p, b)

\* A request passes through the middleware.
MiddlewareArrive(p) ==
    /\ MayArrive(p)
    /\ StartupSync(p, [calls[p] EXCEPT !.kind = "middleware"])
    /\ UNCHANGED <<nodeEnv, env, gh>>

\* POST /api/init arrives.
InitRouteArrive(p) ==
    /\ MayArrive(p)
    /\ StartupSync(p, [calls[p] EXCEPT !.kind = "initroute"])
    /\ UNCHANGED <<nodeEnv, env, gh>>

\* The middleware or POST /api/init resumes after await
\* secretsManager.initialize().
StartupResume(p) ==
    /\ calls[p].pc = "startup"
    /\ calls' = [calls EXCEPT ![p] = StartupReturn(calls[p])]
    /\ UNCHANGED <<nodeEnv, env, gh, secrets, isInitialized, loads, fetches, readySets>>

NextStartup ==
    \/ \E p \in Calls : MiddlewareArrive(p)
    \/ \E p \in Calls : InitRouteArrive(p)
    \/ \E p \in Calls, o \in FetchOutcomes : FetchReturn(p, o)
    \/ \E p \in Calls : InitResume(p)
    \/ \E p \in Calls : StartupResume(p)

\* The store with the middleware and POST /api/init as its callers.
SpecStartup == Init /\ [][NextStartup]_vars

-----------------------------------------------------------------------------
(* Scheduling: the event loop runs every continuation that is ready, and
   every content fetch returns or fails *)

Fairness ==
    \A p \in Calls :
        /\ WF_vars(\E o \in FetchOutcomes : FetchReturn(p, o))
        /\ WF_vars(InitResume(p))
        /\ WF_vars(HelperResume(p))
        /\ WF_vars(GateResume(p))
        /\ WF_vars(WrapperResume(p))

\* The requests of the gated runs: without credential, with the Bearer key
\* K1, and with the X-API-Key K2 next to a Basic authorization.
GateHeaders ==
    {<<NullStr, NullStr>>, <<BearerPrefix \o K1, K2>>, <<BasicPrefix \o K1, K2>>}

\* The environments of the gated runs: production with all GitHub parameters
\* or without the token, local with all field variables or without API_KEY.
InitGate ==
    /\ Init
    /\ nodeEnv = "production" => gh \in {GhParams, GhParams \ {"GITHUB_TOKEN"}}
    /\ nodeEnv # "production" => env \in {FullRecord(K1), FullRecord(Empty)}

NextGate ==
    \/ \E p \in Calls, h \in GateHeaders : GateArrive(p, h[1], h[2])
    \/ \E p \in Calls, o \in FetchOutcomes : FetchReturn(p, o)
    \/ \E p \in Calls : InitResume(p)
    \/ \E p \in Calls : HelperResume(p)
    \/ \E p \in Calls : GateResume(p)
    \/ \E p \in Calls : WrapperResume(p)

\* The store with gated requests only, under that scheduling.
SpecFair == InitGate /\ [][NextGate]_vars /\ Fairness

-----------------------------------------------------------------------------
(* Claims *)

GateCalls == {p \in Calls : calls[p].kind = "gate"}

\* The gate has decided about the request p.
Decided(p) == calls[p].pc \in {"wrap", "done"}

\* C1: at any moment at most one load is in flight for the store; callers
\* of initialize() that arrive during a load never start a second fetch.
C1_SingleFlight == InFlight <= 1

\* C2: the handler of a gated request is invoked only if the credential
\* extracted from the request equals the api key of the record the store
\* gave the gate; a credential that differs from a configured key is answered
\* with 401 InvalidCredential and the handler is not invoked.
C2_HandlerOnlyOnExactKey ==
    \A p \in GateCalls :
        /\ (calls[p].isValid \/ calls[p].handlerCalls > 0)
              => /\ calls[p].seen # JsNull
                 /\ calls[p].provided = calls[p].seen["apiKey"]
                 /\ calls[p].provided =
                        ProvidedApiKey(HeadersGet(calls[p].auth), HeadersGet(calls[p].xkey))
        /\ (/\ Decided(p)
            /\ calls[p].seen # JsNull
            /\ ~Falsy(calls[p].seen["apiKey"])
            /\ ~Falsy(calls[p].provided)
            /\ calls[p].provided # calls[p].seen["apiKey"])
              => /\ calls[p].resp = Response(401, "InvalidCredential")
                 /\ ~calls[p].isValid
                 /\ calls[p].handlerCalls = 0

\* A request with credential K2 was rejected against the configured key K1.
C2_Witness ==
    \E p \in GateCalls :
        /\ calls[p].pc = "done"
        /\ calls[p].provided = K2
        /\ calls[p].seen # JsNull
        /\ calls[p].seen["apiKey"] = K1
        /\ calls[p].resp = Response(401, "InvalidCredential")

\* C3: a request bearing 'Authorization: Bearer K', K being the api key of
\* the record the store gave the gate, is forwarded to the handler, whose
\* context has the credential K and that record as its secrets.
C3_BearerAccepted ==
    \A p \in GateCalls :
        (/\ calls[p].pc = "done"
         /\ calls[p].seen # JsNull
         /\ ~Falsy(calls[p].seen["apiKey"])
         /\ calls[p].auth = BearerPrefix \o calls[p].seen["apiKey"])
          => /\ calls[p].handlerCalls = 1
             /\ calls[p].resp = Response(200, "Handler")
             /\ calls[p].ctx.apiKey = calls[p].seen["apiKey"]
             /\ calls[p].ctx.secrets = calls[p].seen

\* 'Authorization: Bearer K1' was accepted against the configured key K1.
C3_Witness ==
    \E p \in GateCalls :
        /\ calls[p].pc = "done"
        /\ calls[p].auth = BearerPrefix \o K1
        /\ calls[p].handlerCalls = 1
        /\ calls[p].ctx.apiKey = K1
        /\ calls[p].ctx.secrets = secrets
        /\ secrets # JsNull
        /\ secrets["apiKey"] = K1

\* The request p carries no Bearer token and no X-API-Key value.
NoCredential(p) ==
    /\ \/ calls[p].auth = NullStr
       \/ ~StartsWith(calls[p].auth, BearerPrefix)
       \/ calls[p].auth = BearerPrefix
    /\ Falsy(calls[p].xkey)

\* C4: a gated request without credential is answered 401 MissingCredential
\* and its handling never calls initialize(), never reads the environment
\* and never fetches, whether the store is ready or not.
C4_MissingCredentialFirst ==
    \A p \in GateCalls :
        NoCredential(p)
          => /\ ~calls[p].calledInit
             /\ calls[p].fetched = 0
             /\ calls[p].seen = JsNull
             /\ calls[p].resp = Response(401, "MissingCredential")
             /\ calls[p].handlerCalls = 0
             /\ Decided(p)

\* A request without credential was answered while the store was not ready
\* and no load had been attempted.
C4_Witness ==
    \E p \in GateCalls :
        /\ NoCredential(p)
        /\ calls[p].pc = "done"
        /\ ~isInitialized
        /\ loads = 0

\* C5: a call of initialize() made when an earlier call has succeeded (the
\* flag is set) returns at once without error, starts no load and no fetch,
\* and leaves the flag and the record as they were.
C5_InitializeIdempotent ==
    [][\A p \in Calls :
        (calls[p].pc = "idle" /\ calls'[p].calledInit /\ isInitialized)
          => /\ UNCHANGED <<secrets, isInitialized, loads, fetches, readySets>>
             /\ calls'[p].err = NoErr
             /\ calls'[p].fetched = 0
             /\ calls'[p].pc = RetPc(calls'[p].kind)]_vars

\* Two direct calls of initialize() have returned without error after a
\* single load.
C5_Witness ==
    \E p, q \in Calls :
        /\ p < q
        /\ calls[p].kind = "init" /\ calls[q].kind = "init"
        /\ calls[p].pc = "done" /\ calls[q].pc = "done"
        /\ calls[p].err = NoErr /\ calls[q].err = NoErr
        /\ loads = 1
        /\ readySets = 1
        /\ isInitialized

\* C6: while the ready flag is false, getSecrets() and getSecret(name) of the
\* store fail with the not-initialized error and return nothing.
C6_ReadsGuardedByReady ==
    ~isInitialized
      => /\ ~MgrGetSecrets.ok
         /\ \A f \in Fields : ~MgrGetSecret(f).ok

\* C7: when the store is ready, each of the five fields of the record is a
\* non-empty string.
C7_ReadyRecordComplete ==
    IsReady => \A f \in Fields : ~Falsy(secrets[f])

\* C8: once the store is ready, the record it holds never changes.
C8_RecordNeverChanges ==
    [][IsReady => secrets' = secrets]_vars

\* C9: once the ready flag is true it never reverts to false.
C9_ReadyMonotonic ==
    [][isInitialized => isInitialized']_vars

\* A load failed after the flag had been set by another call.
C9_Witness ==
    \E p \in Calls :
        /\ isInitialized
        /\ calls[p].err = GitHubError
        /\ calls[p].fetched = 1
        /\ calls[p].pc \in {"helper", "gate", "wrap", "done"}

\* C10: the assignment ready = true happens at most once in the life of the
\* process, and exactly once when a load has succeeded.
C10_ReadySetOnce == readySets <= 1

\* The initialize() call of p has settled.
InitSettled(p) ==
    /\ calls[p].calledInit
    /\ calls[p].pc \notin {"idle", "fetch", "init"}

\* The field variables that are unset or empty in the environment.
UnsetFields == {f \in Fields : env[f] = Empty}

\* C13: in local mode, with the set S of unset fields not empty, initialize()
\* fails with an error naming every field of S and no other field; with S
\* empty it succeeds.
C13_AllMissingFieldsNamed ==
    nodeEnv # "production"
      => \A p \in Calls :
            InitSettled(p)
              => IF UnsetFields = {}
                 THEN calls[p].err = NoErr /\ isInitialized
                 ELSE /\ calls[p].err.kind = "MissingSecrets"
                      /\ calls[p].err.names = UnsetFields
                      /\ ~isInitialized

\* A local initialize() has failed with three fields unset.
C13_Witness ==
    \E p \in Calls :
        /\ nodeEnv = "test"
        /\ InitSettled(p)
        /\ UnsetFields = {"apiKey", "jwtSecret", "redisUrl"}
        /\ calls[p].err.names = {"apiKey", "jwtSecret", "redisUrl"}

\* C14: in remote mode with a required parameter absent, initialize() fails
\* with an error whose message, as its caller receives it, names the
\* parameters that are missing.
C14_MissingParametersNamed ==
    (nodeEnv = "production" /\ GhMissing)
      => \A p \in Calls :
            InitSettled(p)
              => /\ calls[p].err # NoErr
                 /\ calls[p].err.names = GhParams \ gh

\* C15: in remote mode a failed fetch, a response without content and a
\* content that does not parse all leave loadFromGitHub and initialize() as
\* the one generic error, and the failing call changes neither the flag nor
\* the record.
C15_RemoteFailuresNormalized ==
    [][\A p \in Calls :
        /\ (calls[p].pc = "fetch" /\ calls'[p].pc # "fetch" /\ calls'[p].err # NoErr)
              => /\ calls'[p].err = GitHubError
                 /\ UNCHANGED <<secrets, isInitialized, readySets>>
        /\ (calls[p].pc = "init" /\ calls'[p].pc # "init" /\ calls[p].err # NoErr)
              => /\ calls'[p].err = GitHubError
                 /\ UNCHANGED <<secrets, isInitialized, readySets>>]_vars

\* A remote load has failed after its fetch and the store is not ready.
C15_Witness ==
    \E p \in Calls :
        /\ calls[p].kind = "init"
        /\ calls[p].fetched = 1
        /\ calls[p].pc = "done"
        /\ calls[p].err = GitHubError
        /\ ~isInitialized
        /\ secrets = JsNull

\* C16: a request with a credential whose initialize() fails is answered
\* 500 ConfigurationUnavailable and its handler is not invoked.
C16_InitFailureIs500 ==
    \A p \in GateCalls :
        (/\ Decided(p)
         /\ calls[p].calledInit
         /\ calls[p].err.kind \in {"GitHubInit", "MissingSecrets"})
          => /\ calls[p].resp = Response(500, "ConfigurationUnavailable")
             /\ ~calls[p].isValid
             /\ calls[p].handlerCalls = 0

\* A gated request has been answered 500 after its remote fetch failed.
C16_Witness ==
    \E p \in GateCalls :
        /\ calls[p].pc = "done"
        /\ calls[p].fetched = 1
        /\ calls[p].err = GitHubError
        /\ calls[p].resp = Response(500, "ConfigurationUnavailable")

\* C17: when the record the store gives the gate has an empty or absent api
\* key, a request with a credential is answered 500 ServerMisconfigured,
\* whatever the credential.
C17_EmptyKeyIs500 ==
    \A p \in GateCalls :
        (/\ Decided(p)
         /\ calls[p].err = NoErr
         /\ calls[p].seen # JsNull
         /\ Falsy(calls[p].seen["apiKey"])
         /\ ~Falsy(calls[p].provided))
          => /\ calls[p].resp = Response(500, "ServerMisconfigured")
             /\ ~calls[p].isValid
             /\ calls[p].handlerCalls = 0

\* A request has been answered 500 ServerMisconfigured by a ready store
\* whose record has no api key.
C17_Witness ==
    \E p \in GateCalls :
        /\ calls[p].pc = "done"
        /\ IsReady
        /\ secrets = FullRecord(NullStr)
        /\ calls[p].seen = secrets
        /\ calls[p].provided = K1
        /\ calls[p].resp = Response(500, "ServerMisconfigured")

\* The token after the 'Bearer ' prefix of the Authorization header sent
\* (null when there is no such prefix).
BearerToken(wire) ==
    IF wire # NullStr /\ StartsWith(TrimLeft(wire), BearerPrefix)
    THEN TrimRight(TrimLeft(Substring(TrimLeft(wire), 7)))
    ELSE NullStr

\* The first non-empty result of the two extraction strategies.
Candidate(p) ==
    IF ~Falsy(BearerToken(calls[p].auth))
    THEN BearerToken(calls[p].auth)
    ELSE HeadersGet(calls[p].xkey)

Compared(p) ==
    /\ Decided(p)
    /\ calls[p].err = NoErr
    /\ calls[p].seen # JsNull
    /\ ~Falsy(calls[p].seen["apiKey"])

\* C19: a non-empty Bearer token decides whatever X-API-Key holds; without a
\* 'Bearer ' Authorization header the X-API-Key value decides, and a request
\* with only the correct X-API-Key gets the handler's 200.
C19_BearerPreferred ==
    \A p \in GateCalls :
        Compared(p)
          => /\ ~Falsy(BearerToken(calls[p].auth))
                  => (calls[p].isValid <=>
                        BearerToken(calls[p].auth) = calls[p].seen["apiKey"])
             /\ (calls[p].auth = NullStr \/ ~StartsWith(calls[p].auth, BearerPrefix))
                  => (calls[p].isValid <=> calls[p].xkey = calls[p].seen["apiKey"])
             /\ (/\ calls[p].pc = "done"
                 /\ calls[p].auth = NullStr
                 /\ calls[p].xkey = calls[p].seen["apiKey"])
                  => calls[p].resp = Response(200, "Handler")

\* A request with only the correct X-API-Key header got the handler's 200.
C19_Witness ==
    \E p \in GateCalls :
        /\ calls[p].pc = "done"
        /\ calls[p].auth = NullStr
        /\ calls[p].xkey = K1
        /\ calls[p].seen # JsNull
        /\ calls[p].seen["apiKey"] = K1
        /\ calls[p].resp = Response(200, "Handler")

\* C20: no error leaves validateApiKey: in every state of the store a
\* decided request has a result, and an error met during validation has
\* become a 500 response.
C20_ValidationNeverThrows ==
    \A p \in GateCalls :
        /\ calls[p].thrown = NoErr
        /\ Decided(p)
              => \/ calls[p].isValid /\ calls[p].resp \in {NoResp, Response(200, "Handler")}
                 \/ ~calls[p].isValid /\ calls[p].resp.status \in {401, 500}
        /\ (Decided(p) /\ calls[p].err # NoErr)
              => calls[p].resp.status = 500 /\ ~calls[p].isValid

\* A request met a store whose flag is set and whose record is absent, and
\* was answered 500.
C20_Witness ==
    \E p \in GateCalls :
        /\ Decided(p)
        /\ isInitialized
        /\ secrets = JsNull
        /\ calls[p].err = NotInitializedError
        /\ calls[p].resp.status = 500

\* The texts of a response body that are computed from data.
BodyTexts(body) ==
    (IF "token" \in DOMAIN body THEN {body.token} ELSE {})
    \cup (IF "secretsConfigured" \in DOMAIN body
          THEN {body.secretsConfigured[f] : f \in Fields} ELSE {})

\* C11: no response contains the raw configured value of a field of the
\* record, whatever the value.
C11_NoRawValueInResponse ==
    \A p \in Calls :
        (calls[p].pc = "done" /\ calls[p].seen # JsNull)
          => \A f \in Fields, t \in BodyTexts(calls[p].body) :
                ~Falsy(calls[p].seen[f]) => ~Contains(t, calls[p].seen[f])

\* Records with other values than those of the store.
OtherRecords == [Fields -> {Empty, K1, K2}]

\* The fields of a record that are present.
Present(rec) == {f \in Fields : ~Falsy(rec[f])}

\* C12: the body of a 200 response of GET /api/secrets is the same for every
\* record with the same present fields, and contains the value of no field.
C12_StatusDependsOnPresenceOnly ==
    \A p \in Calls :
        (calls[p].kind = "status" /\ calls[p].pc = "done" /\ calls[p].resp.status = 200)
          => /\ \A r \in OtherRecords :
                    Present(r) = Present(calls[p].seen)
                      => StatusBody(r, nodeEnv) = calls[p].body
             /\ \A f \in Fields, t \in BodyTexts(calls[p].body) :
                    ~Falsy(calls[p].seen[f]) => ~Contains(t, calls[p].seen[f])

\* A status response was given for a record with one field absent.
C12_Witness ==
    \E p \in Calls :
        /\ calls[p].kind = "status"
        /\ calls[p].pc = "done"
        /\ calls[p].resp.status = 200
        /\ calls[p].seen = FullRecord(NullStr)
        /\ calls[p].body.secretsConfigured["apiKey"] = MissingText
        /\ calls[p].body.secretsConfigured["jwtSecret"] = ConfiguredText

\* The responses the gate itself produces.
GateRejections ==
    {Response(401, "MissingCredential"), Response(401, "InvalidCredential"),
     Response(500, "ServerMisconfigured"), Response(500, "ConfigurationUnavailable")}

\* C21: a gated request that is answered after a credential match had its
\* handler invoked exactly once and carries the handler's response; one that
\* is answered after a rejection had its handler invoked zero times and
\* carries the rejection of the gate; before the answer the handler has not
\* been invoked.
C21_HandlerOnceOnMatchOnly ==
    \A p \in GateCalls :
        /\ calls[p].pc # "done" => calls[p].handlerCalls = 0
        /\ (calls[p].pc = "done" /\ calls[p].isValid)
              => /\ calls[p].handlerCalls = 1
                 /\ calls[p].resp = Response(200, "Handler")
        /\ (calls[p].pc = "done" /\ ~calls[p].isValid)
              => /\ calls[p].handlerCalls = 0
                 /\ calls[p].resp \in GateRejections
        /\ (calls[p].pc = "wrap" /\ ~calls[p].isValid)
              => calls[p].resp \in GateRejections

\* One request was answered by its handler and another by a rejection.
C21_Witness ==
    \E p, q \in GateCalls :
        /\ calls[p].pc = "done" /\ calls[p].isValid /\ calls[p].handlerCalls = 1
        /\ calls[q].pc = "done" /\ ~calls[q].isValid /\ calls[q].handlerCalls = 0
        /\ calls[q].resp.status = 401

\* C22: a 500 response given after a failed initialize() carries only the
\* generic error text, whatever NODE_ENV is; the detail of the error is not
\* in the body.
C22_FailureDetailNotInResponse ==
    \A p \in Calls :
        (calls[p].pc = "done" /\ calls[p].resp.status = 500
            /\ calls[p].err \in {GitHubError} \cup {MissingSecretsError(n) : n \in SUBSET Fields})
          => calls[p].body.error = InternalServerError

\* C23: in local mode with exactly one field unset, GET /api/secrets answers
\* 500 with a message naming that field.
C23_StatusNamesMissingField ==
    \A p \in Calls :
        (calls[p].kind = "status" /\ calls[p].pc = "done"
            /\ nodeEnv # "production" /\ Cardinality(UnsetFields) = 1)
          => /\ calls[p].resp.status = 500
             /\ calls[p].body.error = MissingSecretsError(UnsetFields)

\* C24: the middleware ends every request with NextResponse.next() and lets
\* no exception escape, whether initialize() succeeded, failed (the error is
\* logged) or was not needed; when the store is ready it returns at once
\* without calling initialize().
C24_MiddlewareAlwaysForwards ==
    [][\A p \in Calls :
        /\ (calls'[p].kind = "middleware" /\ calls'[p].pc = "done")
              => /\ calls'[p].resp = NextStage
                 /\ calls'[p].thrown = NoErr
                 /\ calls'[p].logged = calls'[p].err
        /\ (calls[p].pc = "idle" /\ calls'[p].kind = "middleware" /\ IsReady)
              => /\ ~calls'[p].calledInit
                 /\ calls'[p].pc = "done"
                 /\ UNCHANGED <<secrets, isInitialized, loads, fetches, readySets>>]_vars

\* The middleware has forwarded a request after its initialize() failed, and
\* has logged the error.
C24_Witness ==
    \E p \in Calls :
        /\ calls[p].kind = "middleware" /\ calls[p].pc = "done"
        /\ calls[p].calledInit
        /\ calls[p].err # NoErr /\ calls[p].logged = calls[p].err
        /\ calls[p].resp = NextStage

\* C30: whenever POST /api/init answers with status 'success', secretsReady
\* in that response is true.
C30_SuccessImpliesReady ==
    \A p \in Calls :
        (calls[p].kind = "initroute" /\ calls[p].pc = "done"
            /\ calls[p].body.status = "success")
          => calls[p].body.secretsReady

\* The errors initialize() fails with.
InitFailures == {GitHubError} \cup {MissingSecretsError(n) : n \in SUBSET Fields}

\* C25: a step in which a call of initialize() fails leaves the record and
\* the ready flag of the store as they were.
C25_FailedInitLeavesStore ==
    [][\A p \in Calls :
        (calls[p].err = NoErr /\ calls'[p].err \in InitFailures)
          => UNCHANGED <<secrets, isInitialized>>]_vars

\* C27: each call of initialize() issues at most one content fetch; none is
\* issued in local mode or when a GitHub parameter is absent; the remote
\* loader runs exactly when NODE_ENV is production (a local load fails only
\* with the missing-secrets error and stores the record of the environment,
\* a remote load fails only with the GitHub error and stores a remote
\* document).
C27_OneFetchPerCall ==
    /\ \A p \in Calls : calls[p].fetched <= 1
    /\ fetches = Cardinality({p \in Calls : calls[p].fetched = 1})
    /\ fetches <= loads
    /\ (nodeEnv # "production" \/ GhMissing) => fetches = 0
    /\ nodeEnv # "production"
          => /\ secrets \in {JsNull, EnvRecord}
             /\ \A p \in Calls : calls[p].err # GitHubError
    /\ nodeEnv = "production"
          => /\ secrets \in RemoteDocs
             /\ \A p \in Calls : calls[p].err.kind # "MissingSecrets"

\* Two calls of initialize() have each issued one fetch, and one of them has
\* failed.
C27_Witness ==
    /\ nodeEnv = "production"
    /\ fetches = 2
    /\ \E p, q \in Calls :
        /\ p # q
        /\ calls[p].fetched = 1 /\ calls[q].fetched = 1
        /\ InitSettled(p) /\ calls[p].err = GitHubError
        /\ InitSettled(q) /\ calls[q].err = NoErr

\* C28: whenever the gate produces the 500 ConfigurationUnavailable
\* response, the store is not ready at that moment.
C28_Unavailable500OnlyWhenNotReady ==
    [][\A p \in Calls :
        (calls[p].pc = "gate"
            /\ calls'[p].resp = Response(500, "ConfigurationUnavailable"))
          => ~IsReady]_vars

\* C26: a request that arrives after an initialize() call has failed, while
\* no call has succeeded, calls initialize() again and that call starts a new
\* load; a load that then completes without error sets the ready flag, and
\* the store is ready with the record it stored.
C26_FailureNotMemoized ==
    [][\A p \in Calls :
        /\ (calls[p].pc = "idle" /\ calls'[p].pc # "idle" /\ readySets = 0
                /\ \E q \in Calls : InitSettled(q) /\ calls[q].err \in InitFailures)
              => /\ calls'[p].calledInit
                 /\ loads' = loads + 1
        /\ (calls[p].pc = "init" /\ calls[p].err = NoErr /\ calls'[p].pc # "init")
              => /\ isInitialized'
                 /\ (secrets # JsNull => IsReady')]_vars

\* After a failed call of initialize(), a later request has loaded again and
\* made the store ready.
C26_Witness ==
    \E p, q \in Calls :
        /\ p < q
        /\ InitSettled(p) /\ calls[p].err \in InitFailures /\ calls[p].pc = "done"
        /\ calls[q].calledInit /\ calls[q].fetched = 1
        /\ InitSettled(q) /\ calls[q].err = NoErr
        /\ loads = 2
        /\ IsReady

\* C29: every request that has entered the gate is eventually answered, with
\* a 401, a 500 or the response of the handler.
C29_EveryGatedRequestAnswered ==
    /\ \A p \in Calls :
            (calls[p].kind = "gate")
              ~> (calls[p].pc = "done" /\ calls[p].resp.status \in {200, 401, 500})
    /\ [][\A p \in Calls : calls[p].pc = "done" => calls'[p] = calls[p]]_vars

\* Two gated requests that both fetched during first use have been answered.
C29_Witness ==
    \E p, q \in GateCalls :
        /\ p # q
        /\ calls[p].fetched = 1 /\ calls[q].fetched = 1
        /\ calls[p].pc = "done" /\ calls[q].pc = "done"
        /\ calls[p].resp.status = 200
        /\ calls[q].resp.status \in {401, 500}

====
